---------------------------- MODULE Spec2Model ----------------------------
(***************************************************************************)
(* Binaural Dreamscapes (src/app.py): the tone parameters kept in module   *)
(* globals, the Tk handlers that write them on the control thread, the     *)
(* sounddevice stream life cycle, and audio_callback, which reads the      *)
(* globals on the audio thread one global at a time.                       *)
(*                                                                         *)
(* Numbers.  Frequencies are in thousandths of a hertz, phases in          *)
(* thousandths of a degree, the volume in thousandths (0.2 is 200), the    *)
(* volume slider value in percent, times in samples.                       *)
(***************************************************************************)
EXTENDS Integers, Sequences, FiniteSets, TLC

VARIABLES
    frequency_left,     \* global frequency_left  (app.py:29)
    frequency_right,    \* global frequency_right (app.py:30)
    phase_left,         \* global phase_left      (app.py:33)
    phase_right,        \* global phase_right     (app.py:34)
    volume,             \* global volume          (app.py:28)
    stream,             \* global stream (app.py:32): None or an OutputStream
    start_button,       \* state of start_button  (app.py:675)
    stop_button,        \* state of stop_button   (app.py:679-681)
    db,                 \* table configurations   (app.py:43-55), keyed by name
    last,               \* the last handler call: what it signalled, a dialog's title or an exception
    loading,            \* control thread inside load_selected_config's unpack
    cb,                 \* the audio thread: position and locals of audio_callback
    dac,                \* driver clock: output DAC time of the next block, in samples
    blocks,             \* callbacks invoked so far
    calls,              \* handler calls made so far
    seen,               \* parameter sets published while the callback in flight ran
    stopped,            \* streams for which stop_stream has returned
    rendered            \* blocks rendered by the callback run on its own (SpecRender)

params == <<frequency_left, frequency_right, phase_left, phase_right, volume>>
engine == <<stream, start_button, stop_button>>
vars == <<frequency_left, frequency_right, phase_left, phase_right, volume, stream, start_button, stop_button, db, last, loading, cb, dac, blocks, calls, seen, stopped, rendered>>

(***************************************************************************)
(* Program constants and model bounds                                      *)
(***************************************************************************)
sampling_rate == 44100

buffer_size == 1024 * 2

\* Callbacks the driver makes in one run.
MaxBlocks == 2

\* Handler calls the control surface makes in one run.
MaxCalls == 3

None == [none |-> TRUE]

\* The driver's clock is the stream time of PortAudio, which does not start at
\* 0 with a stream.  With this reading the first block crosses a whole second.
DacOrigins == {0, 21 * buffer_size}

(***************************************************************************)
(* Entry fields, float() and the ".1f" format                              *)
(***************************************************************************)
FloatLiteral == [t \in {"-0.1", "0", "0.999", "1", "100.5", "360", "360.1", "20000", "20000.1"} |-> CASE t = "-0.1" -> -100 [] t = "0" -> 0 [] t = "0.999" -> 999 [] t = "1" -> 1000 [] t = "100.5" -> 100500 [] t = "360" -> 360000 [] t = "360.1" -> 360100 [] t = "20000" -> 20000000 [] t = "20000.1" -> 20000100]

\* f"{v:.1f}" read back as a number: v rounded to one decimal (ties, which
\* the binary value decides, are not among the inputs).
Format1(v) == LET r == v % 100 IN IF r < 50 THEN v - r ELSE v - r + 100

\* The content of an entry field: text the user typed, or f"{v:.1f}".
Typed(text) == [typed |-> TRUE, text |-> text, value |-> 0]
Formatted(v) == [typed |-> FALSE, text |-> "", value |-> Format1(v)]

\* float(entry.get()): ok is FALSE where Python raises ValueError.
float(entry) == IF ~entry.typed THEN [ok |-> TRUE, value |-> entry.value] ELSE IF entry.text \in DOMAIN FloatLiteral THEN [ok |-> TRUE, value |-> FloatLiteral[entry.text]] ELSE [ok |-> FALSE, value |-> 0]

Clamp(v, from, to) == IF v < from THEN from ELSE IF v > to THEN to ELSE v

\* ttk.Scale.set(v) limits v to from_..to and runs the scale's command (which
\* is why update_volume tests volume_value_label, still None at app.py:657).
\* The command rewrites the entry as f"{v:.1f}" and calls the update function
\* with from_slider=True, which stores that number: it passes the range test.
frequency_slider_set(v) == Format1(Clamp(v, 1000, 20000000))
phase_slider_set(v) == Format1(Clamp(v, 0, 360000))

FrequencyTexts == {"abc", "0", "0.999", "1", "20000", "20000.1"}
PhaseTexts == {"abc", "-0.1", "0", "360", "360.1"}

\* Values a ttk.Scale hands to its command lie between from_ and to.
FrequencySliderValues == {1040, 19999960}
PhaseSliderValues == {40, 359960}
VolumeSliderValues == {0, 100}

ConfigNames == {"", "a"}
NoRow == [norow |-> TRUE]

Config == [frequency_left |-> frequency_left, frequency_right |-> frequency_right, phase_left |-> phase_left, phase_right |-> phase_right, volume |-> volume]

\* dreamscapes.db outlives the process: a row saved by an earlier run.
EarlierConfig == [frequency_left |-> 20000000, frequency_right |-> 1000, phase_left |-> 360000, phase_right |-> 0, volume |-> 1000]

Unwritten == [volume |-> -1, frequency |-> -1, phase |-> -1]
Idle == [pc |-> "idle", stream |-> 0, time |-> 0, frames |-> 0, radian_phase_left |-> 0, radian_phase_right |-> 0, vol |-> 0, left |-> Unwritten, right |-> Unwritten]

\* Tk runs one handler at a time: no handler starts while another is running.
ControlIdle == loading = None /\ calls < MaxCalls

\* The parameter set as of the last completed handler.
Published == IF loading = None THEN Config ELSE loading.before

\* A handler has completed and left the parameter set c.
Publish(c) == seen' = IF cb.pc = "idle" THEN seen ELSE seen \cup {c}

Streaming == stream # None /\ stream.active

\* Handler op has been called and has signalled sig; streaming tells whether a
\* stream was active when it was called.
Called(op, sig) == last' = [op |-> op, signal |-> sig, streaming |-> Streaming] /\ calls' = calls + 1

Init ==
    /\ frequency_left = 100000
    /\ frequency_right = 104000
    /\ phase_left = 0
    /\ phase_right = 0
    /\ volume = 200
    /\ stream = None
    /\ start_button = "normal"
    /\ stop_button = "disabled"
    /\ db \in [ConfigNames \ {""} -> {NoRow, EarlierConfig}]
    /\ last = [op |-> "none", signal |-> "none", streaming |-> FALSE]
    /\ loading = None
    /\ cb = Idle
    /\ dac \in DacOrigins
    /\ blocks = 0
    /\ calls = 0
    /\ seen = {}
    /\ stopped = {}
    /\ rendered = <<>>

(***************************************************************************)
(* Parameter handlers (control thread)                                     *)
(***************************************************************************)
\* As update_frequency_left, the lower limit tested as 0 <= new_frequency.
update_frequency_left_from_zero(entry, from_slider) ==
    LET new_frequency == float(entry)
        accepted == new_frequency.ok /\ 0 <= new_frequency.value /\ new_frequency.value <= 20000000
        stored == IF accepted THEN (IF from_slider THEN new_frequency.value ELSE frequency_slider_set(new_frequency.value)) ELSE frequency_slider_set(frequency_left)
    IN  /\ ControlIdle
        /\ frequency_left' = stored
        /\ Called("update_frequency_left", IF accepted THEN "none" ELSE "Invalid Value")
        /\ Publish([Config EXCEPT !.frequency_left = stored])
        /\ UNCHANGED <<frequency_right, phase_left, phase_right, volume, engine, db, loading, cb, dac, blocks, stopped, rendered>>

update_frequency_left(entry, from_slider) ==
    LET new_frequency == float(entry)
        accepted == new_frequency.ok /\ 1000 <= new_frequency.value /\ new_frequency.value <= 20000000
        stored == IF accepted THEN (IF from_slider THEN new_frequency.value ELSE frequency_slider_set(new_frequency.value)) ELSE frequency_slider_set(frequency_left)
    IN  /\ ControlIdle
        /\ frequency_left' = stored
        /\ Called("update_frequency_left", IF accepted THEN "none" ELSE "Invalid Value")
        /\ Publish([Config EXCEPT !.frequency_left = stored])
        /\ UNCHANGED <<frequency_right, phase_left, phase_right, volume, engine, db, loading, cb, dac, blocks, stopped, rendered>>

update_frequency_right(entry, from_slider) ==
    LET new_frequency == float(entry)
        accepted == new_frequency.ok /\ 1000 <= new_frequency.value /\ new_frequency.value <= 20000000
        stored == IF accepted THEN (IF from_slider THEN new_frequency.value ELSE frequency_slider_set(new_frequency.value)) ELSE frequency_slider_set(frequency_right)
    IN  /\ ControlIdle
        /\ frequency_right' = stored
        /\ Called("update_frequency_right", IF accepted THEN "none" ELSE "Invalid Value")
        /\ Publish([Config EXCEPT !.frequency_right = stored])
        /\ UNCHANGED <<frequency_left, phase_left, phase_right, volume, engine, db, loading, cb, dac, blocks, stopped, rendered>>

update_phase_left(entry, from_slider) ==
    LET new_phase == float(entry)
        accepted == new_phase.ok /\ 0 <= new_phase.value /\ new_phase.value <= 360000
        stored == IF accepted THEN (IF from_slider THEN new_phase.value ELSE phase_slider_set(new_phase.value)) ELSE phase_slider_set(phase_left)
    IN  /\ ControlIdle
        /\ phase_left' = stored
        /\ Called("update_phase_left", IF accepted THEN "none" ELSE "Invalid Value")
        /\ Publish([Config EXCEPT !.phase_left = stored])
        /\ UNCHANGED <<frequency_left, frequency_right, phase_right, volume, engine, db, loading, cb, dac, blocks, stopped, rendered>>

update_phase_right(entry, from_slider) ==
    LET new_phase == float(entry)
        accepted == new_phase.ok /\ 0 <= new_phase.value /\ new_phase.value <= 360000
        stored == IF accepted THEN (IF from_slider THEN new_phase.value ELSE phase_slider_set(new_phase.value)) ELSE phase_slider_set(phase_right)
    IN  /\ ControlIdle
        /\ phase_right' = stored
        /\ Called("update_phase_right", IF accepted THEN "none" ELSE "Invalid Value")
        /\ Publish([Config EXCEPT !.phase_right = stored])
        /\ UNCHANGED <<frequency_left, frequency_right, phase_left, volume, engine, db, loading, cb, dac, blocks, stopped, rendered>>

update_frequency_left_slider(val) == update_frequency_left(Formatted(val), TRUE)

update_frequency_right_slider(val) == update_frequency_right(Formatted(val), TRUE)

update_phase_left_slider(val) == update_phase_left(Formatted(val), TRUE)

update_phase_right_slider(val) == update_phase_right(Formatted(val), TRUE)

\* As update_volume, the division by 100 forgotten.
update_volume_unscaled(val) ==
    /\ ControlIdle
    /\ volume' = val * 1000
    /\ Called("update_volume", "none")
    /\ Publish([Config EXCEPT !.volume = val * 1000])
    /\ UNCHANGED <<frequency_left, frequency_right, phase_left, phase_right, engine, db, loading, cb, dac, blocks, stopped, rendered>>

\* volume = float(val) / 100, val in percent: no test of val, nothing signalled.
update_volume(val) ==
    /\ ControlIdle
    /\ volume' = val * 10
    /\ Called("update_volume", "none")
    /\ Publish([Config EXCEPT !.volume = val * 10])
    /\ UNCHANGED <<frequency_left, frequency_right, phase_left, phase_right, engine, db, loading, cb, dac, blocks, stopped, rendered>>

(***************************************************************************)
(* Stream life cycle (control thread)                                      *)
(***************************************************************************)
Devices == {"ok", "open fails", "start fails"}

\* Each sd.OutputStream(...) is a new object.  Beside its id and what
\* stream.active answers, a stream records whether its callback raised into the
\* driver, how many blocks the driver asked of it and the DAC time of the first.
NewStreamId == IF stream = None THEN 1 ELSE stream.id + 1

\* As start_stream, without the test of stream.active.
start_stream_unguarded(device) ==
    /\ ControlIdle
    /\ IF TRUE
       THEN CASE device = "open fails" ->
                    /\ Called("start_stream", "PortAudioError")
                    /\ UNCHANGED engine
              [] device = "start fails" ->
                    /\ stream' = [id |-> NewStreamId, active |-> FALSE, fault |-> FALSE, blocks |-> 0, first |-> 0]
                    /\ Called("start_stream", "PortAudioError")
                    /\ UNCHANGED <<start_button, stop_button>>
              [] device = "ok" ->
                    /\ stream' = [id |-> NewStreamId, active |-> TRUE, fault |-> FALSE, blocks |-> 0, first |-> 0]
                    /\ start_button' = "disabled"
                    /\ stop_button' = "normal"
                    /\ Called("start_stream", "none")
       ELSE /\ Called("start_stream", "none")
            /\ UNCHANGED engine
    /\ UNCHANGED <<params, db, loading, cb, dac, blocks, seen, stopped, rendered>>


\* As start_stream, the buttons configured before stream.start() is called.
start_stream_buttons_first(device) ==
    /\ ControlIdle
    /\ IF stream = None \/ ~stream.active
       THEN CASE device = "open fails" ->
                    /\ Called("start_stream", "PortAudioError")
                    /\ UNCHANGED engine
              [] device = "start fails" ->
                    /\ stream' = [id |-> NewStreamId, active |-> FALSE, fault |-> FALSE, blocks |-> 0, first |-> 0]
                    /\ Called("start_stream", "PortAudioError")
                    /\ start_button' = "disabled"
                    /\ stop_button' = "normal"
              [] device = "ok" ->
                    /\ stream' = [id |-> NewStreamId, active |-> TRUE, fault |-> FALSE, blocks |-> 0, first |-> 0]
                    /\ start_button' = "disabled"
                    /\ stop_button' = "normal"
                    /\ Called("start_stream", "none")
       ELSE /\ Called("start_stream", "none")
            /\ UNCHANGED engine
    /\ UNCHANGED <<params, db, loading, cb, dac, blocks, seen, stopped, rendered>>


\* device: whether PortAudio opens and starts the output device this time.
\* A PortAudioError raised by sd.OutputStream or stream.start leaves
\* start_stream at once: the lines after the raise are not run.
start_stream(device) ==
    /\ ControlIdle
    /\ IF stream = None \/ ~stream.active
       THEN CASE device = "open fails" ->
                    /\ Called("start_stream", "PortAudioError")
                    /\ UNCHANGED engine
              [] device = "start fails" ->
                    /\ stream' = [id |-> NewStreamId, active |-> FALSE, fault |-> FALSE, blocks |-> 0, first |-> 0]
                    /\ Called("start_stream", "PortAudioError")
                    /\ UNCHANGED <<start_button, stop_button>>
              [] device = "ok" ->
                    /\ stream' = [id |-> NewStreamId, active |-> TRUE, fault |-> FALSE, blocks |-> 0, first |-> 0]
                    /\ start_button' = "disabled"
                    /\ stop_button' = "normal"
                    /\ Called("start_stream", "none")
       ELSE /\ Called("start_stream", "none")
            /\ UNCHANGED engine
    /\ UNCHANGED <<params, db, loading, cb, dac, blocks, seen, stopped, rendered>>

\* As stop_stream, were the stream ended without waiting for its callback.
stop_stream_no_wait ==
    /\ ControlIdle
    /\ IF stream # None /\ stream.active
       THEN /\ stream' = [stream EXCEPT !.active = FALSE]
            /\ stopped' = stopped \cup {stream.id}
            /\ start_button' = "normal"
            /\ stop_button' = "disabled"
       ELSE UNCHANGED <<engine, stopped>>
    /\ Called("stop_stream", "none")
    /\ UNCHANGED <<params, db, loading, cb, dac, blocks, seen, rendered>>


\* stream.stop() returns once the callback in flight, if any, has returned, and
\* the driver makes no callback after it.
stop_stream ==
    /\ ControlIdle
    /\ IF stream # None /\ stream.active
       THEN /\ cb.pc = "idle"
            /\ stream' = [stream EXCEPT !.active = FALSE]
            /\ stopped' = stopped \cup {stream.id}
            /\ start_button' = "normal"
            /\ stop_button' = "disabled"
       ELSE UNCHANGED <<engine, stopped>>
    /\ Called("stop_stream", "none")
    /\ UNCHANGED <<params, db, loading, cb, dac, blocks, seen, rendered>>

(***************************************************************************)
(* Saved configurations (control thread)                                   *)
(***************************************************************************)
\* save(), inner function of save_configuration; name is the name entry's text.
save(name) ==
    /\ ControlIdle
    /\ IF name # ""
       THEN IF db[name] = NoRow
            THEN /\ db' = [db EXCEPT ![name] = Config]
                 /\ Called("save", "Success")
            ELSE /\ Called("save", "Error")
                 /\ UNCHANGED db
       ELSE /\ Called("save", "Error")
            /\ UNCHANGED db
    /\ UNCHANGED <<params, engine, loading, cb, dac, blocks, seen, stopped, rendered>>

\* update_ui_values(): every slider.set runs the slider's command, which stores
\* the value again: the frequencies and phases as f"{v:.1f}", the volume as
\* float(val) / 100 of the volume slider's value.
update_ui_values(config) == [frequency_left |-> frequency_slider_set(config.frequency_left), frequency_right |-> frequency_slider_set(config.frequency_right), phase_left |-> phase_slider_set(config.phase_left), phase_right |-> phase_slider_set(config.phase_right), volume |-> Clamp(config.volume, 0, 1000)]

\* load_selected_config up to the first store of the unpacking assignment;
\* selection is listbox.curselection(): empty, or one listed name.
load_selected_config(selection) ==
    /\ ControlIdle
    /\ IF selection # <<>>
       THEN /\ db[selection[1]] # NoRow
            /\ frequency_left' = db[selection[1]].frequency_left
            /\ loading' = [config |-> db[selection[1]], next |-> "frequency_right", before |-> Config]
            /\ Called("load_selected_config", "none")
       ELSE /\ Called("load_selected_config", "Error")
            /\ UNCHANGED <<frequency_left, loading>>
    /\ UNCHANGED <<frequency_right, phase_left, phase_right, volume, engine, db, cb, dac, blocks, seen, stopped, rendered>>

\* The remaining stores of the unpacking assignment, one global at a time, then
\* update_ui_values() and dialog.destroy().
load_selected_config_store ==
    /\ loading # None
    /\ CASE loading.next = "frequency_right" ->
                /\ frequency_right' = loading.config.frequency_right
                /\ loading' = [loading EXCEPT !.next = "phase_left"]
                /\ UNCHANGED <<frequency_left, phase_left, phase_right, volume, seen>>
         [] loading.next = "phase_left" ->
                /\ phase_left' = loading.config.phase_left
                /\ loading' = [loading EXCEPT !.next = "phase_right"]
                /\ UNCHANGED <<frequency_left, frequency_right, phase_right, volume, seen>>
         [] loading.next = "phase_right" ->
                /\ phase_right' = loading.config.phase_right
                /\ loading' = [loading EXCEPT !.next = "volume"]
                /\ UNCHANGED <<frequency_left, frequency_right, phase_left, volume, seen>>
         [] loading.next = "volume" ->
                LET shown == update_ui_values(loading.config)
                IN  /\ frequency_left' = shown.frequency_left
                    /\ frequency_right' = shown.frequency_right
                    /\ phase_left' = shown.phase_left
                    /\ phase_right' = shown.phase_right
                    /\ volume' = shown.volume
                    /\ loading' = None
                    /\ Publish(shown)
    /\ UNCHANGED <<calls, engine, db, last, cb, dac, blocks, stopped, rendered>>

\* As TimeIndex, were the samples of every block counted from 0.
TimeIndex_per_block(frames, time) == [i \in 1..frames |-> (i - 1) % sampling_rate]

(***************************************************************************)
(* audio_callback (audio thread)                                           *)
(***************************************************************************)
\* Line 148: t = (np.arange(frames) + time.outputBufferDacTime * sampling_rate)
\* % sampling_rate; time is the DAC time in samples.
TimeIndex(frames, time) == [i \in 1..frames |-> ((i - 1) + time) % sampling_rate]

\* Lines 151-160: one column of outdata.  A sample volume * 0.5 * sin(2 pi f t /
\* sampling_rate + phase) is kept as the values it is computed from.
Channel(column, t) == [i \in DOMAIN t |-> [volume |-> column.volume, frequency |-> column.frequency, t |-> t[i], phase |-> column.phase]]

\* The argument of np.sin at lines 154 and 159, 2 pi f t / sampling_rate +
\* radian_phase, as a fraction of a cycle in units of 1 / CycleUnits: a
\* frequency of 1 mHz over one sample is 2 units, a phase of 1 mdeg is 245.
CycleUnits == 2 * 1000 * sampling_rate

RECURSIVE MulMod(_, _)
\* (a * t) % CycleUnits, by halving t, so that no product leaves 32 bits.
MulMod(a, t) == IF t = 0 THEN 0 ELSE (2 * MulMod(a, t \div 2) + (IF t % 2 = 1 THEN a ELSE 0)) % CycleUnits

PhaseArgument(sample) == (MulMod((2 * sample.frequency) % CycleUnits, sample.t) + 245 * sample.phase) % CycleUnits

\* Lines 142-160 run from one set of parameters: the outdata of a callback
\* of `frames` frames whose block starts at sample `time`.
render(config, frames, time) ==
    LET t == TimeIndex(frames, time)
    IN  [left |-> Channel([volume |-> config.volume, frequency |-> config.frequency_left, phase |-> config.phase_left], t),
         right |-> Channel([volume |-> config.volume, frequency |-> config.frequency_right, phase |-> config.phase_right], t)]

\* Two callbacks of N and M frames, the second starting where the first
\* ended, beside one callback of N + M frames, the parameters held.
RenderBlocks(N, M, start) ==
    /\ rendered = <<>>
    /\ rendered' = [n |-> N, m |-> M, start |-> start, first |-> render(Config, N, start), second |-> render(Config, M, start + N), whole |-> render(Config, N + M, start)]
    /\ UNCHANGED <<params, engine, db, last, loading, cb, dac, blocks, calls, seen, stopped>>

\* As audio_callback_invoke, were the driver's DAC time not to move.
audio_callback_invoke_dac_held ==
    /\ stream # None /\ stream.active
    /\ cb.pc = "idle"
    /\ blocks < MaxBlocks
    /\ cb' = [Idle EXCEPT !.pc = "phase_left", !.stream = stream.id, !.time = dac, !.frames = buffer_size]
    /\ dac' = dac
    /\ blocks' = blocks + 1
    /\ seen' = {Published}
    /\ stream' = [stream EXCEPT !.blocks = @ + 1, !.first = IF stream.blocks = 0 THEN dac ELSE @]
    /\ UNCHANGED <<calls, params, start_button, stop_button, db, last, loading, stopped, rendered>>

\* The driver invokes the callback of the active stream for the next block.
audio_callback_invoke ==
    /\ stream # None /\ stream.active
    /\ cb.pc = "idle"
    /\ blocks < MaxBlocks
    /\ cb' = [Idle EXCEPT !.pc = "phase_left", !.stream = stream.id, !.time = dac, !.frames = buffer_size]
    /\ dac' = dac + buffer_size
    /\ blocks' = blocks + 1
    /\ seen' = {Published}
    /\ stream' = [stream EXCEPT !.blocks = @ + 1, !.first = IF stream.blocks = 0 THEN dac ELSE @]
    /\ UNCHANGED <<calls, params, start_button, stop_button, db, last, loading, stopped, rendered>>

\* One read of a global by the callback; pc names the global read next.
audio_callback ==
    /\ CASE cb.pc = "phase_left" -> cb' = [cb EXCEPT !.pc = "phase_right", !.radian_phase_left = phase_left]
         [] cb.pc = "phase_right" -> cb' = [cb EXCEPT !.pc = "volume (left)", !.radian_phase_right = phase_right]
         [] cb.pc = "volume (left)" -> cb' = [cb EXCEPT !.pc = "frequency_left", !.vol = volume]
         [] cb.pc = "frequency_left" -> cb' = [cb EXCEPT !.pc = "volume (right)", !.left = [volume |-> cb.vol, frequency |-> frequency_left, phase |-> cb.radian_phase_left]]
         [] cb.pc = "volume (right)" -> cb' = [cb EXCEPT !.pc = "frequency_right", !.vol = volume]
         [] cb.pc = "frequency_right" -> cb' = [cb EXCEPT !.pc = "return", !.right = [volume |-> cb.vol, frequency |-> frequency_right, phase |-> cb.radian_phase_right]]
         [] OTHER -> FALSE
    /\ UNCHANGED <<calls, params, engine, db, last, loading, dac, blocks, seen, stopped, rendered>>

\* The callback returns and the driver plays the block.
audio_callback_return ==
    /\ cb.pc = "return"
    /\ cb' = Idle
    /\ seen' = {}
    /\ UNCHANGED <<calls, params, engine, db, last, loading, dac, blocks, stopped, rendered>>

\* An exception inside the callback: audio_callback has no try, so it leaves
\* the function, and sounddevice's wrapper answers the driver paAbort.
audio_callback_raise ==
    /\ cb.pc \notin {"idle", "return"}
    /\ cb' = Idle
    /\ stream' = [stream EXCEPT !.active = FALSE, !.fault = TRUE]
    /\ seen' = {}
    /\ UNCHANGED <<calls, params, start_button, stop_button, db, last, loading, dac, blocks, stopped, rendered>>

(***************************************************************************)
(* The program                                                             *)
(***************************************************************************)
Next ==
    \/ \E text \in FrequencyTexts : update_frequency_left(Typed(text), FALSE)
    \/ \E text \in FrequencyTexts : update_frequency_right(Typed(text), FALSE)
    \/ \E text \in PhaseTexts : update_phase_left(Typed(text), FALSE)
    \/ \E text \in PhaseTexts : update_phase_right(Typed(text), FALSE)
    \/ \E val \in FrequencySliderValues : update_frequency_left_slider(val)
    \/ \E val \in FrequencySliderValues : update_frequency_right_slider(val)
    \/ \E val \in PhaseSliderValues : update_phase_left_slider(val)
    \/ \E val \in PhaseSliderValues : update_phase_right_slider(val)
    \/ \E val \in VolumeSliderValues : update_volume(val)
    \/ \E device \in Devices : start_stream(device)
    \/ stop_stream
    \/ \E name \in ConfigNames : save(name)
    \/ \E selection \in {<<>>} \cup {<<n>> : n \in ConfigNames \ {""}} : load_selected_config(selection)
    \/ load_selected_config_store
    \/ audio_callback_invoke
    \/ audio_callback
    \/ audio_callback_return
    \/ audio_callback_raise

Spec == Init /\ [][Next]_vars

\* update_volume called as a function, with values a caller may pass beyond
\* those the volume slider hands over.
DirectVolumeValues == {-10, 20, 150}

NextDirect ==
    \/ Next
    \/ \E val \in DirectVolumeValues : update_volume(val)

SpecDirect == Init /\ [][NextDirect]_vars

\* The rendering of lines 142-160 as a function of the parameters, the block
\* length and the block's first sample, under the parameters the sliders set.
MaxLen == 3
StartSamples == {0, sampling_rate - 2}

NextRender ==
    \/ \E val \in FrequencySliderValues : update_frequency_left_slider(val)
    \/ \E val \in FrequencySliderValues : update_frequency_right_slider(val)
    \/ \E val \in PhaseSliderValues : update_phase_left_slider(val)
    \/ \E val \in PhaseSliderValues : update_phase_right_slider(val)
    \/ \E val \in VolumeSliderValues : update_volume(val)
    \/ \E N \in 0..MaxLen, M \in 0..MaxLen, start \in StartSamples : RenderBlocks(N, M, start)

SpecRender == Init /\ [][NextRender]_vars

\* The rendering under frequencies typed into the entries, whole and
\* fractional.
TypedFrequencyTexts == {"1", "100.5", "20000"}

NextPhase ==
    \/ \E text \in TypedFrequencyTexts : update_frequency_left(Typed(text), FALSE)
    \/ \E text \in TypedFrequencyTexts : update_frequency_right(Typed(text), FALSE)
    \/ \E N \in 0..MaxLen, M \in 0..MaxLen, start \in StartSamples : RenderBlocks(N, M, start)

SpecPhase == Init /\ [][NextPhase]_vars

(***************************************************************************)
(* Claims                                                                  *)
(***************************************************************************)
\* The values one callback invocation read, the volume as read for the left
\* channel.
CallbackRead == [frequency_left |-> cb.left.frequency, frequency_right |-> cb.right.frequency, phase_left |-> cb.left.phase, phase_right |-> cb.right.phase, volume |-> cb.left.volume]

\* The parameter sets before and after the updates that ran while the callback
\* in flight did, the load still running included.
Versions == seen \cup (IF loading = None THEN {} ELSE {update_ui_values(loading.config)})

\* C1: when one update runs while a callback does, the five values the
\* callback read are all those of the parameter set before the update or all
\* those of the set after it, also when the update is the load of a saved
\* configuration.
C1_ReadsOldOrNewInFull == (cb.pc = "return" /\ Cardinality(Versions) <= 2) => CallbackRead \in Versions

\* C2: in every state the stored frequencies are in [1, 20000], the stored
\* phases in [0, 360] and the stored volume in [0.0, 1.0].
C2_StoredParametersInRange ==
    /\ 1000 <= frequency_left /\ frequency_left <= 20000000
    /\ 1000 <= frequency_right /\ frequency_right <= 20000000
    /\ 0 <= phase_left /\ phase_left <= 360000
    /\ 0 <= phase_right /\ phase_right <= 360000
    /\ 0 <= volume /\ volume <= 1000

\* A configuration has been loaded and the volume slider moved to 100 after it.
C2_Witness == last.op = "update_volume" /\ volume = 1000 /\ frequency_left = 20000000 /\ frequency_right = 1000 /\ phase_left = 360000

\* What the frequency claim expects of text typed in a frequency entry.
C3_InRange(text) == text \in DOMAIN FloatLiteral /\ FloatLiteral[text] >= 1000 /\ FloatLiteral[text] <= 20000000

C3_Expected(text, field) == IF C3_InRange(text) THEN [Config EXCEPT ![field] = FloatLiteral[text]] ELSE Config

C3_Outcome(text, field) == Config' = C3_Expected(text, field) /\ (last'.signal = "none" <=> C3_InRange(text)) /\ (last'.signal = "Invalid Value" <=> ~C3_InRange(text))

C4_VolumeOutsideRangeRejected ==
    [][\A val \in DirectVolumeValues \cup VolumeSliderValues :
        (update_volume(val) /\ (val < 0 \/ val > 100)) => (volume' = volume /\ last'.signal = "Invalid Value")]_vars

\* C5: start_stream while a stream is active, and stop_stream while none is,
\* change nothing: the stream, the buttons, the parameters, the saved rows and
\* the audio thread are as before, and nothing is signalled.
C5_RedundantStartStopChangeNothing ==
    [][/\ \A device \in Devices : (start_stream(device) /\ Streaming) => (UNCHANGED <<params, engine, db, cb, dac, stopped>> /\ last'.signal = "none")
       /\ (stop_stream /\ ~Streaming) => (UNCHANGED <<params, engine, db, cb, dac, stopped>> /\ last'.signal = "none")]_vars

\* start_stream has been called while the stream it had opened was active.
C5_Witness == last = [op |-> "start_stream", signal |-> "none", streaming |-> TRUE] /\ Streaming /\ stream.id = 1

\* C6: no callback runs for a stream for which stop_stream has returned, also
\* after a later start_stream.
C6_NoCallbackAfterStop == cb.pc # "idle" => (cb.stream \notin stopped /\ stream # None /\ stream.id = cb.stream /\ stream.active)

\* A stream ran a callback and was stopped, a second stream was started and
\* its callback is running.
C6_Witness == cb.pc = "frequency_right" /\ cb.stream = 2 /\ stopped = {1} /\ blocks = 2

\* C7: a start_stream in which the device cannot be opened or started raises
\* PortAudioError, leaves no stream active and leaves both buttons as they
\* were; a start_stream after it that finds the device opens a stream.
C7_FailedStartStaysIdle ==
    [][/\ \A device \in {"open fails", "start fails"} : (start_stream(device) /\ ~Streaming) => (~Streaming' /\ last'.signal = "PortAudioError" /\ UNCHANGED <<start_button, stop_button, params>>)
       /\ (start_stream("ok") /\ last.signal = "PortAudioError") => (Streaming' /\ stream'.id = NewStreamId)]_vars

\* stream.start() has failed: the stream object exists, is not active, and the
\* buttons still offer Start.
C7_Witness == last = [op |-> "start_stream", signal |-> "PortAudioError", streaming |-> FALSE] /\ stream # None /\ ~stream.active /\ start_button = "normal" /\ stop_button = "disabled"

\* C8: an exception inside the callback leaves a block of zero samples, does
\* not reach the driver, and the stream stays active.
C8_FaultyBlockIsSilent ==
    [][audio_callback_raise => (stream' = stream /\ cb'.pc = "return" /\ cb'.left.volume = 0 /\ cb'.right.volume = 0)]_vars

\* C9: with the parameters held, a block of N samples from sample 0 followed
\* by a block of M samples from sample N has the time indices and the output
\* values, sample for sample and on both channels, of one block of N + M
\* samples from sample 0; the same from any other first sample.
C9_SplitBlocksEqualWholeBlock ==
    rendered # <<>> =>
        /\ rendered.first.left \o rendered.second.left = rendered.whole.left
        /\ rendered.first.right \o rendered.second.right = rendered.whole.right
        /\ Len(rendered.whole.left) = rendered.n + rendered.m

\* Blocks of 2 and 3 samples from sample 0 have been rendered beside one block
\* of 5, under parameters other than the initial ones.
C9_Witness == rendered # <<>> /\ rendered.n = 2 /\ rendered.m = 3 /\ rendered.start = 0 /\ rendered.whole.left[5].t = 4 /\ frequency_left = 1000 /\ volume = 1000

\* First sample of the block the callback in flight renders.
StartSample == TimeIndex(cb.frames, cb.time)[1]

Advance(a, b) == (PhaseArgument(b) - PhaseArgument(a)) % CycleUnits

Steady(column) == \A i \in 1..(Len(column) - 1) : Advance(column[i], column[i + 1]) = (2 * column[i].frequency) % CycleUnits

\* C11: with the parameters held, the phase argument advances by
\* frequency / sampling_rate of a cycle, modulo one cycle, between every two
\* consecutive emitted samples of a channel, across the block boundary and
\* across the wrap of t from sampling_rate - 1 to 0, for every valid
\* frequency, whole or fractional.
C11_PhaseAdvancesSteadily ==
    rendered # <<>> =>
        /\ Steady(rendered.first.left \o rendered.second.left)
        /\ Steady(rendered.first.right \o rendered.second.right)

\* Every sample of a column is computed with the volume, frequency and phase
\* the callback read for that column.
Uniform(column, t) == \A i \in DOMAIN t : Channel(column, t)[i].volume = column.volume /\ Channel(column, t)[i].frequency = column.frequency /\ Channel(column, t)[i].phase = column.phase

\* C12: a callback renders its block from one set of parameters, whatever the
\* control thread does meanwhile: the left and the right channel of the block
\* are computed with the same volume, and every sample of a channel with the
\* same frequency and phase.
C12_BlockFromOneParameterSet ==
    cb.pc = "return" =>
        /\ cb.left.volume = cb.right.volume
        /\ Uniform(cb.left, TimeIndex(cb.frames, cb.time))
        /\ Uniform(cb.right, TimeIndex(cb.frames, cb.time))

\* C13: in every state the buttons match the engine: Start is disabled and
\* Stop enabled exactly when a stream is active, Start is enabled and Stop
\* disabled exactly when none is, failed calls of start_stream included.
C13_AffordancesMatchEngine ==
    /\ Streaming <=> (start_button = "disabled" /\ stop_button = "normal")
    /\ ~Streaming <=> (start_button = "normal" /\ stop_button = "disabled")

=============================================================================
